---- MODULE Spec2Model ----
(***************************************************************************)
(* Webhook lifecycle of yatbl's WebhookBot (src/src/WebhookBot.js).        *)
(*                                                                         *)
(* The file holds two revisions of the class.  The second one (lines       *)
(* 92-214, the one that honours options.path) is the one modelled; the     *)
(* first revision's call order appears only as a mutant below.             *)
(*                                                                         *)
(* JavaScript strings are sequences of one-character strings.  An object   *)
(* is a record over the property names the methods read or forward; each   *)
(* property is [has, v] ("has" FALSE: the property is absent).             *)
(***************************************************************************)
EXTENDS Integers, Sequences, FiniteSets

VARIABLES
    _webhookServer,  \* this._webhookServer: 0 (undefined) or index in listeners
    listeners,       \* every server handle the listener factory has returned
    registered,      \* Telegram's side: a webhook is currently set
    callerOptions,   \* the options object the caller last handed to setWebhook
    globalScope,     \* what the free identifiers BOT_TOKEN / options resolve to
    pc,              \* where the one lifecycle call in progress is suspended
    log              \* recorded events, as a mock API client / listener records

vars == <<_webhookServer, listeners, registered, callerOptions, globalScope, pc, log>>

---------------------------------------------------------------------------
(* Bounds *)

MaxOps == 3
MaxSetWebhookCalls == 2
MaxRequests == 2

---------------------------------------------------------------------------
(* Strings *)

UpperCase == <<"A","B","C","D","E","F","G","H","I","J","K","L","M",
               "N","O","P","Q","R","S","T","U","V","W","X","Y","Z">>
LowerCase == <<"a","b","c","d","e","f","g","h","i","j","k","l","m",
               "n","o","p","q","r","s","t","u","v","w","x","y","z">>
Digits == {"0","1","2","3","4","5","6","7","8","9"}

Range(s) == {s[i] : i \in DOMAIN s}

IsAlpha(c) == c \in Range(UpperCase) \cup Range(LowerCase)

ToLower(c) ==
    IF c \in Range(UpperCase)
    THEN LowerCase[CHOOSE i \in DOMAIN UpperCase : UpperCase[i] = c]
    ELSE c

LowerStr(s) == [i \in DOMAIN s |-> ToLower(s[i])]

\* index of the first element of s in set cs at or after position from; Len(s)+1 if none
RECURSIVE IndexOfAny(_, _, _)
IndexOfAny(s, cs, from) ==
    IF from > Len(s) THEN Len(s) + 1
    ELSE IF s[from] \in cs THEN from
    ELSE IndexOfAny(s, cs, from + 1)

\* index of the first element of s NOT in set cs at or after position from
RECURSIVE SkipAll(_, _, _)
SkipAll(s, cs, from) ==
    IF from > Len(s) THEN Len(s) + 1
    ELSE IF s[from] \notin cs THEN from
    ELSE SkipAll(s, cs, from + 1)

---------------------------------------------------------------------------
(* new URL(input): scheme and host of the WHATWG parser, no base URL *)

SpecialSchemes ==
    { <<"h","t","t","p">>, <<"h","t","t","p","s">>, <<"f","t","p">>,
      <<"w","s">>, <<"w","s","s">> }

SchemeChars == Range(UpperCase) \cup Range(LowerCase) \cup Digits \cup {"+", "-", "."}

ParseURL(s) ==
    LET colon  == IndexOfAny(s, {":"}, 1)
        scheme == SubSeq(s, 1, colon - 1)
        noScheme ==
            \/ colon > Len(s)
            \/ scheme = <<>>
            \/ ~IsAlpha(scheme[1])
            \/ \E i \in DOMAIN scheme : scheme[i] \notin SchemeChars
        lower     == LowerStr(scheme)
        hostStart == SkipAll(s, {"/", "\\"}, colon + 1)
        hostEnd   == IndexOfAny(s, {"/", "\\", "?", "#"}, hostStart)
        host      == SubSeq(s, hostStart, hostEnd - 1)
    IN  IF noScheme THEN [ok |-> FALSE, protocol |-> <<>>]
        ELSE IF lower \in SpecialSchemes /\ host = <<>>
             THEN [ok |-> FALSE, protocol |-> <<>>]
        ELSE [ok |-> TRUE, protocol |-> lower \o <<":">>]

HttpsProtocol == <<"h","t","t","p","s",":">>

---------------------------------------------------------------------------
(* Values and objects *)

Keys == {"url", "path", "secret_token", "PORT"}

Absent == [has |-> FALSE, v |-> <<>>]
AbsentNum == [has |-> FALSE, v |-> 0]
Present(x) == [has |-> TRUE, v |-> x]

EmptyObj == [url |-> Absent, path |-> Absent, secret_token |-> Absent, PORT |-> AbsentNum]

Undefined == [t |-> "undefined", s |-> <<>>, o |-> EmptyObj]
Str(s) == [t |-> "string", s |-> s, o |-> EmptyObj]
ObjV(o) == [t |-> "object", s |-> <<>>, o |-> o]

ObjectObject == <<"[","o","b","j","e","c","t"," ","O","b","j","e","c","t","]">>
UndefinedStr == <<"u","n","d","e","f","i","n","e","d">>

\* String(v), as new URL(v) and the + operator apply it
StringOf(v) ==
    CASE v.t = "string" -> v.s
      [] v.t = "object" -> ObjectObject
      [] OTHER          -> UndefinedStr

\* v.k : the property k of a value (a string has none of the Keys)
GetProp(v, k) ==
    IF v.t = "object" THEN v.o[k]
    ELSE IF k = "PORT" THEN AbsentNum ELSE Absent

\* truthiness of a string-valued property: present and not the empty string
Truthy(p) == p.has /\ p.v # <<>>

\* { ...base, ...o } : every own property of o overrides the one of base
Spread(base, o) == [k \in Keys |-> IF o[k].has THEN o[k] ELSE base[k]]

---------------------------------------------------------------------------
(* The bot and its collaborators *)

\* the token handed to the constructor, kept by the base class as this._BOT_TOKEN
_BOT_TOKEN == <<"7", ":", "K">>

DefaultPort == 3000

\* the listener factory: a server handle that is listening when it is returned
NewListener(port) ==
    [port |-> port, state |-> "open", closeCalls |-> 0, accepted |-> 0, finished |-> 0]

\* server.close(cb) reaches the handle: it stops accepting at once
CloseInvoked(l) ==
    [l EXCEPT !.closeCalls = @ + 1,
              !.state = IF @ = "open" THEN "closing" ELSE @]

\* the close callback fires: without error the port is released
CloseCompleted(l, err) == [l EXCEPT !.state = IF err THEN @ ELSE "closed"]

ListenerOpen(ls, id) == id # 0 /\ ls[id].state = "open"

\* every request the handle accepted has been processed
Drained(l) == l.accepted = l.finished

\* requests accepted by all the handles together
RECURSIVE TotalAccepted(_)
TotalAccepted(ls) == IF ls = <<>> THEN 0 ELSE Head(ls).accepted + TotalAccepted(Tail(ls))

---------------------------------------------------------------------------
(* Recorded events *)

EvCall(op, arg, options, reused) ==
    [ev |-> "call", op |-> op, arg |-> arg, options |-> options, reused |-> reused]
EvListen(id, port) == [ev |-> "listen", id |-> id, port |-> port]
EvListenFail(port) == [ev |-> "listenFail", port |-> port]
EvTapi(method, payload) == [ev |-> "tapi", method |-> method, payload |-> payload]
EvTapiDone(method, ok) == [ev |-> "tapiDone", method |-> method, ok |-> ok]
EvClose(id) == [ev |-> "close", id |-> id]
EvCloseDone(id, err) == [ev |-> "closeDone", id |-> id, err |-> err]
EvReturn(op, value) == [ev |-> "return", op |-> op, value |-> value]
EvThrow(op, error) == [ev |-> "throw", op |-> op, error |-> error]
EvCaught(error) == [ev |-> "caught", error |-> error]

CallIndexes(l) == {i \in DOMAIN l : l[i].ev = "call"}
NumOps == Cardinality(CallIndexes(log))

\* index of the call event of the operation in progress (or last finished)
LastCall(l) == CHOOSE i \in CallIndexes(l) : \A j \in CallIndexes(l) : j <= i
CurrentOp(l) == IF CallIndexes(l) = {} THEN "none" ELSE l[LastCall(l)].op

---------------------------------------------------------------------------
(* Inputs the callers and the environment supply *)

HttpsUrl  == <<"h","t","t","p","s",":","/","/","e","/">>
UpperUrl  == <<"H","T","T","P","S",":","/","/","e","/">>
HttpUrl   == <<"h","t","t","p",":","/","/","e","/">>
NoHostUrl == <<"h","t","t","p","s",":","/","/">>
BareUrl   == <<"e","/">>
OtherUrl  == <<"h","t","t","p",":","/","/","o","/">>

UrlInputs == {HttpsUrl, UpperUrl, HttpUrl, NoHostUrl, BareUrl}

PathX == <<"x">>
Secret == <<"s">>

OptionsInputs ==
    { EmptyObj,
      [EmptyObj EXCEPT !.path = Present(PathX)],
      [EmptyObj EXCEPT !.path = Present(<<>>)],
      [EmptyObj EXCEPT !.path = Present(PathX), !.secret_token = Present(Secret)],
      [EmptyObj EXCEPT !.secret_token = Present(Secret)],
      [EmptyObj EXCEPT !.url = Present(OtherUrl)] }

LifecycleUrls == {HttpsUrl, HttpUrl}
LifecycleOptions == {EmptyObj, [EmptyObj EXCEPT !.path = Present(PathX)]}

\* a port other than the default
AltPort == DefaultPort + 1

\* what setWebhookAndStartServer is handed: a url string, or an options object
StartInputs ==
    { Str(HttpsUrl), Str(HttpUrl),
      ObjV([EmptyObj EXCEPT !.url = Present(HttpsUrl), !.PORT = Present(AltPort)]) }

PortInputs == {AbsentNum, Present(AltPort)}

\* the free identifiers of deleteWebhook: declared by nobody in the module, so
\* they resolve (or fail to resolve) against the global object of the process
Undeclared == [declared |-> FALSE, s |-> <<>>, o |-> EmptyObj]
GlobalScopes ==
    { [BOT_TOKEN |-> Undeclared, options |-> Undeclared],
      [BOT_TOKEN |-> [declared |-> TRUE, s |-> _BOT_TOKEN, o |-> EmptyObj],
       options   |-> Undeclared],
      [BOT_TOKEN |-> [declared |-> TRUE, s |-> _BOT_TOKEN, o |-> EmptyObj],
       options   |-> [declared |-> TRUE, s |-> <<>>, o |-> EmptyObj]] }

---------------------------------------------------------------------------
(* Initial state: a constructed bot, nothing started, nothing registered *)

Init ==
    /\ _webhookServer = 0
    /\ listeners = <<>>
    /\ registered = FALSE
    /\ callerOptions = EmptyObj
    /\ globalScope \in GlobalScopes
    /\ pc = "idle"
    /\ log = <<>>

CanCall == pc = "idle"

OpsBelow(n) == NumOps < n

---------------------------------------------------------------------------
(* startServer(PORT = 3000) *)

PortOf(PORT) == IF PORT.has THEN PORT.v ELSE DefaultPort

startServer(PORT, listenOk) ==
    /\ CanCall
    /\ IF listenOk
       THEN /\ listeners' = Append(listeners, NewListener(PortOf(PORT)))
            /\ _webhookServer' = Len(listeners) + 1
            /\ log' = log \o << EvCall("startServer", Undefined, EmptyObj, FALSE),
                                EvListen(Len(listeners) + 1, PortOf(PORT)),
                                EvReturn("startServer", "undefined") >>
       ELSE /\ UNCHANGED <<listeners, _webhookServer>>
            /\ log' = log \o << EvCall("startServer", Undefined, EmptyObj, FALSE),
                                EvListenFail(PortOf(PORT)),
                                EvThrow("startServer", "ListenError") >>
    /\ UNCHANGED <<registered, callerOptions, globalScope, pc>>

---------------------------------------------------------------------------
(* setWebhook(url, options = {}) *)

\* lines 142-150: new URL(url) parses and the protocol is https:
ValidWebhookUrl(url) ==
    LET u == ParseURL(StringOf(url))
    IN  u.ok /\ u.protocol = HttpsProtocol

\* line 153: options.path || this._BOT_TOKEN
UrlPath(options) == IF Truthy(options.path) THEN options.path.v ELSE _BOT_TOKEN

\* line 155: if (options.path) delete options.path
AfterDeletePath(options) ==
    IF Truthy(options.path) THEN [options EXCEPT !.path = Absent] ELSE options

\* lines 157-160: { url: url + urlPath, ...options }
SetWebhookPayload(url, options) ==
    Spread([EmptyObj EXCEPT !.url = Present(StringOf(url) \o UrlPath(options))],
           AfterDeletePath(options))

setWebhook(url, options, reused) ==
    /\ CanCall
    /\ IF ValidWebhookUrl(url)
       THEN /\ callerOptions' = AfterDeletePath(options)
            /\ pc' = "setWebhook"
            /\ log' = log \o << EvCall("setWebhook", url, options, reused),
                                EvTapi("setWebhook", SetWebhookPayload(url, options)) >>
       ELSE /\ callerOptions' = options
            /\ pc' = "idle"
            /\ log' = log \o << EvCall("setWebhook", url, options, reused),
                                EvThrow("setWebhook", "InvalidWebhookURL") >>
    /\ UNCHANGED <<_webhookServer, listeners, registered, globalScope>>

\* Mutant: a failed registration rolls the start back: the listener of the
\* composed start is closed and the reference to it dropped.
setWebhook_tapiSettles_rollback(ok) ==
    /\ pc = "setWebhook"
    /\ pc' = "idle"
    /\ registered' = (ok \/ registered)
    /\ IF ~ok /\ CurrentOp(log) = "setWebhookAndStartServer"
       THEN /\ listeners' = [listeners EXCEPT ![_webhookServer].state = "closed"]
            /\ _webhookServer' = 0
       ELSE UNCHANGED <<listeners, _webhookServer>>
    /\ log' = log \o << EvTapiDone("setWebhook", ok),
                        IF ok
                        THEN EvReturn(CurrentOp(log),
                                      IF CurrentOp(log) = "setWebhook"
                                      THEN "true" ELSE "undefined")
                        ELSE EvThrow(CurrentOp(log), "ApiError") >>
    /\ UNCHANGED <<callerOptions, globalScope>>

\* Mutant: a failed remote call is swallowed and setWebhook returns true.
setWebhook_tapiSettles_swallow(ok) ==
    /\ pc = "setWebhook"
    /\ pc' = "idle"
    /\ registered' = (ok \/ registered)
    /\ log' = log \o << EvTapiDone("setWebhook", ok),
                        EvReturn(CurrentOp(log),
                                 IF CurrentOp(log) = "setWebhook"
                                 THEN "true" ELSE "undefined") >>
    /\ UNCHANGED <<_webhookServer, listeners, callerOptions, globalScope>>

\* the awaited tapi("setWebhook") settles; the caller (setWebhook itself, or
\* setWebhookAndStartServer awaiting it) returns or rethrows
setWebhook_tapiSettles(ok) ==
    /\ pc = "setWebhook"
    /\ pc' = "idle"
    /\ registered' = (ok \/ registered)
    /\ log' = log \o << EvTapiDone("setWebhook", ok),
                        IF ok
                        THEN EvReturn(CurrentOp(log),
                                      IF CurrentOp(log) = "setWebhook"
                                      THEN "true" ELSE "undefined")
                        ELSE EvThrow(CurrentOp(log), "ApiError") >>
    /\ UNCHANGED <<_webhookServer, listeners, callerOptions, globalScope>>

---------------------------------------------------------------------------
(* setWebhookAndStartServer(options) *)

\* Mutant: the call order of the first revision (lines 51-56): setWebhook is
\* awaited before startServer, so tapi is issued while nothing listens yet.
setWebhookAndStartServer_registerFirst(arg, listenOk) ==
    LET call == EvCall("setWebhookAndStartServer", arg, EmptyObj, FALSE)
    IN  /\ CanCall
        /\ IF ValidWebhookUrl(arg)
           THEN /\ pc' = "setWebhook"
                /\ log' = log \o << call, EvTapi("setWebhook",
                                                 SetWebhookPayload(arg, EmptyObj)) >>
           ELSE /\ pc' = "idle"
                /\ log' = log \o << call, EvThrow("setWebhookAndStartServer",
                                                  "InvalidWebhookURL") >>
        /\ UNCHANGED <<listeners, _webhookServer, registered, callerOptions, globalScope>>

\* lines 175-180: await this.startServer(options.PORT); await this.setWebhook(options)
\* The whole argument is handed to setWebhook as its url; its options default to {}.
setWebhookAndStartServer(arg, listenOk) ==
    LET port == PortOf(GetProp(arg, "PORT"))
        id   == Len(listeners) + 1
        call == EvCall("setWebhookAndStartServer", arg, EmptyObj, FALSE)
    IN  /\ CanCall
        /\ IF ~listenOk
           THEN /\ UNCHANGED <<listeners, _webhookServer, pc>>
                /\ log' = log \o << call, EvListenFail(port),
                                    EvThrow("setWebhookAndStartServer", "ListenError") >>
           ELSE /\ listeners' = Append(listeners, NewListener(port))
                /\ _webhookServer' = id
                /\ IF ValidWebhookUrl(arg)
                   THEN /\ pc' = "setWebhook"
                        /\ log' = log \o << call, EvListen(id, port),
                                            EvTapi("setWebhook",
                                                   SetWebhookPayload(arg, EmptyObj)) >>
                   ELSE /\ pc' = "idle"
                        /\ log' = log \o << call, EvListen(id, port),
                                            EvThrow("setWebhookAndStartServer",
                                                    "InvalidWebhookURL") >>
        /\ UNCHANGED <<registered, callerOptions, globalScope>>

---------------------------------------------------------------------------
(* deleteWebhook() *)

ApiBase == <<"h","t","t","p","s",":","/","/","a","p","i",".","t","e","l","e","g","r","a","m",
             ".","o","r","g","/","b","o","t">>

\* line 188: `https://api.telegram.org/bot${BOT_TOKEN}/`
DeleteWebhookUrl(token) == ApiBase \o token \o <<"/">>

\* lines 191-194: { url, ...options }
DeleteWebhookPayload(scope) ==
    Spread([EmptyObj EXCEPT !.url = Present(DeleteWebhookUrl(scope.BOT_TOKEN.s))],
           scope.options.o)

\* lines 187-194, up to the await: a free identifier that does not resolve throws
\* a ReferenceError inside the try, before tapi is called
deleteWebhook ==
    LET call == EvCall("deleteWebhook", Undefined, EmptyObj, FALSE)
    IN  /\ CanCall
        /\ IF globalScope.BOT_TOKEN.declared /\ globalScope.options.declared
           THEN /\ pc' = "deleteWebhook_tapi"
                /\ log' = log \o << call,
                                    EvTapi("deleteWebhook",
                                           DeleteWebhookPayload(globalScope)) >>
           ELSE /\ pc' = "idle"
                /\ log' = log \o << call, EvCaught("ReferenceError"),
                                    EvReturn("deleteWebhook", "false") >>
        /\ UNCHANGED <<_webhookServer, listeners, registered, callerOptions, globalScope>>

\* Mutant: the server is closed whatever the remote call answered.
deleteWebhook_tapiSettles_closeAnyway(ok) ==
    /\ pc = "deleteWebhook_tapi"
    /\ _webhookServer # 0
    /\ registered' = (IF ok THEN FALSE ELSE registered)
    /\ pc' = "deleteWebhook_close"
    /\ listeners' = [listeners EXCEPT ![_webhookServer] = CloseInvoked(@)]
    /\ log' = log \o << EvTapiDone("deleteWebhook", ok), EvClose(_webhookServer) >>
    /\ UNCHANGED <<_webhookServer, callerOptions, globalScope>>

\* Mutant: close is invoked but its callback is not awaited: teardown returns
\* true as soon as the remote call has succeeded.
deleteWebhook_tapiSettles_noAwait(ok) ==
    /\ pc = "deleteWebhook_tapi"
    /\ _webhookServer # 0
    /\ pc' = "idle"
    /\ registered' = (IF ok THEN FALSE ELSE registered)
    /\ IF ok
       THEN /\ listeners' = [listeners EXCEPT ![_webhookServer] = CloseInvoked(@)]
            /\ log' = log \o << EvTapiDone("deleteWebhook", TRUE), EvClose(_webhookServer),
                                EvReturn("deleteWebhook", "true") >>
       ELSE /\ UNCHANGED listeners
            /\ log' = log \o << EvTapiDone("deleteWebhook", FALSE), EvCaught("ApiError"),
                                EvReturn("deleteWebhook", "false") >>
    /\ UNCHANGED <<_webhookServer, callerOptions, globalScope>>

\* the awaited tapi("deleteWebhook") settles; on success lines 200-202 invoke
\* this._webhookServer.close(cb)
deleteWebhook_tapiSettles(ok) ==
    /\ pc = "deleteWebhook_tapi"
    /\ IF ~ok
       THEN /\ pc' = "idle"
            /\ log' = log \o << EvTapiDone("deleteWebhook", FALSE), EvCaught("ApiError"),
                                EvReturn("deleteWebhook", "false") >>
            /\ UNCHANGED <<listeners, registered>>
       ELSE /\ registered' = FALSE
            /\ IF _webhookServer = 0
               THEN \* undefined.close: TypeError in the executor rejects the promise
                    /\ pc' = "idle"
                    /\ log' = log \o << EvTapiDone("deleteWebhook", TRUE),
                                        EvCaught("TypeError"),
                                        EvReturn("deleteWebhook", "false") >>
                    /\ UNCHANGED listeners
               ELSE /\ pc' = "deleteWebhook_close"
                    /\ listeners' = [listeners EXCEPT
                                        ![_webhookServer] = CloseInvoked(@)]
                    /\ log' = log \o << EvTapiDone("deleteWebhook", TRUE),
                                        EvClose(_webhookServer) >>
    /\ UNCHANGED <<_webhookServer, callerOptions, globalScope>>

\* a handle that was not listening when close was invoked always reports an error
WasRunning(l) == l.state = "closing" /\ l.closeCalls = 1

\* Mutant: the close error is swallowed and teardown reports success.
deleteWebhook_closeCallback_swallow(err) ==
    /\ pc = "deleteWebhook_close"
    /\ (~err => WasRunning(listeners[_webhookServer]) /\ Drained(listeners[_webhookServer]))
    /\ pc' = "idle"
    /\ listeners' = [listeners EXCEPT ![_webhookServer] = CloseCompleted(@, err)]
    /\ log' = log \o << EvCloseDone(_webhookServer, err),
                        EvReturn("deleteWebhook", "true") >>
    /\ UNCHANGED <<_webhookServer, registered, callerOptions, globalScope>>

\* Mutant: the callback only resolves: (err) => err || resolve().  A close error
\* settles nothing and the awaiting teardown never resumes.
deleteWebhook_closeCallback_neverRejects(err) ==
    /\ pc = "deleteWebhook_close"
    /\ (~err => WasRunning(listeners[_webhookServer]) /\ Drained(listeners[_webhookServer]))
    /\ IF err
       THEN UNCHANGED <<pc, listeners, log>>
       ELSE /\ pc' = "idle"
            /\ listeners' = [listeners EXCEPT ![_webhookServer] = CloseCompleted(@, FALSE)]
            /\ log' = log \o << EvCloseDone(_webhookServer, FALSE),
                                EvReturn("deleteWebhook", "true") >>
    /\ UNCHANGED <<_webhookServer, registered, callerOptions, globalScope>>

\* lines 201-210: the close callback fires with or without an error
deleteWebhook_closeCallback(err) ==
    /\ pc = "deleteWebhook_close"
    /\ (~err => WasRunning(listeners[_webhookServer]) /\ Drained(listeners[_webhookServer]))
    /\ pc' = "idle"
    /\ listeners' = [listeners EXCEPT ![_webhookServer] = CloseCompleted(@, err)]
    /\ log' = log \o (IF err
                      THEN << EvCloseDone(_webhookServer, TRUE), EvCaught("ServerCloseError"),
                              EvReturn("deleteWebhook", "false") >>
                      ELSE << EvCloseDone(_webhookServer, FALSE),
                              EvReturn("deleteWebhook", "true") >>)
    /\ UNCHANGED <<_webhookServer, registered, callerOptions, globalScope>>

---------------------------------------------------------------------------
(* Webhook deliveries reaching the built-in server *)

\* an open listener accepts a delivery and hands it to the update handler
RequestAccepted(id) ==
    /\ id \in DOMAIN listeners
    /\ listeners[id].state = "open"
    /\ listeners' = [listeners EXCEPT ![id].accepted = @ + 1]
    /\ UNCHANGED <<_webhookServer, registered, callerOptions, globalScope, pc, log>>

\* the handling of an accepted delivery comes to its end
RequestFinished(id) ==
    /\ id \in DOMAIN listeners
    /\ listeners[id].finished < listeners[id].accepted
    /\ listeners' = [listeners EXCEPT ![id].finished = @ + 1]
    /\ UNCHANGED <<_webhookServer, registered, callerOptions, globalScope, pc, log>>

---------------------------------------------------------------------------
(* Specifications *)

\* the lifecycle: every operation, called one at a time
Next ==
    \/ \E PORT \in PortInputs, listenOk \in BOOLEAN :
          OpsBelow(MaxOps) /\ startServer(PORT, listenOk)
    \/ \E url \in LifecycleUrls, options \in LifecycleOptions :
          OpsBelow(MaxOps) /\ setWebhook(Str(url), options, FALSE)
    \/ \E ok \in BOOLEAN : setWebhook_tapiSettles(ok)
    \/ \E arg \in StartInputs, listenOk \in BOOLEAN :
          OpsBelow(MaxOps) /\ setWebhookAndStartServer(arg, listenOk)
    \/ OpsBelow(MaxOps) /\ deleteWebhook
    \/ \E ok \in BOOLEAN : deleteWebhook_tapiSettles(ok)
    \/ \E err \in BOOLEAN : deleteWebhook_closeCallback(err)

Spec == Init /\ [][Next]_vars

\* setWebhook alone, over every url and options object, with a fresh options
\* object or the one the caller handed in before
NextSetWebhook ==
    \/ \E url \in UrlInputs, options \in OptionsInputs :
          OpsBelow(MaxSetWebhookCalls) /\ setWebhook(Str(url), options, FALSE)
    \/ \E url \in UrlInputs :
          OpsBelow(MaxSetWebhookCalls) /\ setWebhook(Str(url), callerOptions, TRUE)
    \/ \E ok \in BOOLEAN : setWebhook_tapiSettles(ok)

\* deleteWebhook is not called here: the global scope plays no part
InitSetWebhook == Init /\ ~globalScope.BOT_TOKEN.declared

SpecSetWebhook == InitSetWebhook /\ [][NextSetWebhook]_vars

---------------------------------------------------------------------------
(* Reading the recorded events *)

\* the call event of the operation that event j belongs to
RECURSIVE OpCall(_)
OpCall(j) == IF log[j].ev = "call" THEN j ELSE OpCall(j - 1)

\* the events of the operation called at i
OpEvents(i) == {j \in (i + 1)..Len(log) : \A k \in (i + 1)..j : log[k].ev # "call"}

OpFinished(i) == \E j \in OpEvents(i) : log[j].ev \in {"return", "throw"}
OpReturned(i) == \E j \in OpEvents(i) : log[j].ev = "return"

\* the remote calls the API client has recorded, in order
RECURSIVE TapiCalls(_)
TapiCalls(l) ==
    IF l = <<>> THEN <<>>
    ELSE IF Head(l).ev = "tapi"
         THEN <<[method |-> Head(l).method, url |-> Head(l).payload.url]>> \o TapiCalls(Tail(l))
         ELSE TapiCalls(Tail(l))

---------------------------------------------------------------------------
(* C1 *)

\* C1: whenever startup (setWebhook, or the composed setWebhookAndStartServer)
\* fails on a malformed or non-https url, no remote call has been made and no
\* listener has been created in that operation.
C1_BadUrlNoCallNoListener ==
    \A j \in DOMAIN log :
        /\ log[j].ev = "throw"
        /\ log[j].error = "InvalidWebhookURL"
        /\ log[OpCall(j)].arg.t = "string"
        => \A k \in OpEvents(OpCall(j)) : log[k].ev \notin {"tapi", "listen"}

---------------------------------------------------------------------------
(* C2 *)

\* C2: in the composed start, tapi("setWebhook") is issued only after the
\* listener was created and is listening.
C2_RegisterAfterListen ==
    \A j \in DOMAIN log :
        (log[j].ev = "tapi" /\ log[OpCall(j)].op = "setWebhookAndStartServer")
        => /\ \E k \in OpEvents(OpCall(j)) : k < j /\ log[k].ev = "listen"
           /\ (j = Len(log) => ListenerOpen(listeners, _webhookServer))

C2_Witness ==
    /\ pc = "setWebhook"
    /\ CurrentOp(log) = "setWebhookAndStartServer"
    /\ log[Len(log)].ev = "tapi"

---------------------------------------------------------------------------
(* C3 *)

\* C3: in teardown, close is invoked on the listener only after the remote
\* deleteWebhook call of that same teardown has succeeded.
C3_CloseAfterDelete ==
    \A j \in DOMAIN log :
        log[j].ev = "close"
        => /\ log[OpCall(j)].op = "deleteWebhook"
           /\ \E k \in OpEvents(OpCall(j)) :
                 /\ k < j
                 /\ log[k].ev = "tapiDone"
                 /\ log[k].method = "deleteWebhook"
                 /\ log[k].ok

C3_Witness == pc = "deleteWebhook_close" /\ log[Len(log)].ev = "close"

---------------------------------------------------------------------------
(* C4 *)

\* no collaborator reported a failure in the operation called at i
NoFailureIn(i) ==
    \A j \in OpEvents(i) :
        /\ log[j].ev # "listenFail"
        /\ (log[j].ev = "tapiDone" => log[j].ok)
        /\ (log[j].ev = "closeDone" => ~log[j].err)

\* a composed start with a valid https url string (no path option) at 1, then a
\* finished teardown, the collaborators succeeding throughout
StartThenTeardown ==
    /\ Cardinality(CallIndexes(log)) = 2
    /\ log[1].op = "setWebhookAndStartServer"
    /\ log[1].arg.t = "string"
    /\ ValidWebhookUrl(log[1].arg)
    /\ NoFailureIn(1)
    /\ OpReturned(1)
    /\ log[LastCall(log)].op = "deleteWebhook"
    /\ NoFailureIn(LastCall(log))
    /\ OpFinished(LastCall(log))

\* C4: after such a start and teardown the recorded remote calls are exactly
\* setWebhook with url U + token and then deleteWebhook with that same url, the
\* listener is closed and teardown reported success.
C4_EndToEnd ==
    StartThenTeardown
    => LET u == Present(log[1].arg.s \o _BOT_TOKEN)
       IN  /\ TapiCalls(log) = << [method |-> "setWebhook", url |-> u],
                                  [method |-> "deleteWebhook", url |-> u] >>
           /\ listeners[_webhookServer].state = "closed"
           /\ log[Len(log)] = EvReturn("deleteWebhook", "true")

---------------------------------------------------------------------------
(* C5 *)

OnlyComposedCalls ==
    \A i \in CallIndexes(log) : log[i].op \in {"setWebhookAndStartServer", "deleteWebhook"}

\* C5: over sequential calls of setWebhookAndStartServer and deleteWebhook,
\* whenever the webhook is registered at Telegram the bot's listener is open.
C5_RegisteredImpliesListening ==
    (OnlyComposedCalls /\ registered) => ListenerOpen(listeners, _webhookServer)

\* still registered after a teardown whose remote call failed
C5_Witness ==
    /\ OnlyComposedCalls
    /\ registered
    /\ pc = "idle"
    /\ CurrentOp(log) = "deleteWebhook"
    /\ \E j \in OpEvents(LastCall(log)) : log[j].ev = "tapiDone" /\ ~log[j].ok

---------------------------------------------------------------------------
(* C6 *)

\* C6: when the remote deleteWebhook call fails, teardown returns false without
\* invoking close, and the listener, the server reference and the registration
\* are what they were before teardown was called.
C6_FailedDeleteChangesNothing ==
    [][ /\ (pc' = "deleteWebhook_tapi"
            => UNCHANGED <<listeners, _webhookServer, registered>>)
        /\ (  /\ pc = "deleteWebhook_tapi"
              /\ log'[Len(log) + 1] = EvTapiDone("deleteWebhook", FALSE)
            => /\ UNCHANGED <<listeners, _webhookServer, registered>>
               /\ pc' = "idle"
               /\ log'[Len(log')] = EvReturn("deleteWebhook", "false")
               /\ \A j \in DOMAIN log' : j > Len(log) => log'[j].ev # "close") ]_vars

\* a teardown of a registered bot with an open listener has failed on the remote call
C6_Witness ==
    /\ pc = "idle"
    /\ CurrentOp(log) = "deleteWebhook"
    /\ \E j \in OpEvents(LastCall(log)) : log[j].ev = "tapiDone" /\ ~log[j].ok
    /\ registered
    /\ ListenerOpen(listeners, _webhookServer)
    /\ LastCall(log) > 1

---------------------------------------------------------------------------
(* C7 *)

\* C7 as stated: when the remote call succeeded and close reports an error,
\* teardown ends with a ServerCloseError reaching its caller.
C7_CloseErrorIsRaised ==
    \A j \in DOMAIN log :
        (log[j].ev = "closeDone" /\ log[j].err)
        => \E k \in OpEvents(OpCall(j)) :
              log[k].ev = "throw" /\ log[k].error = "ServerCloseError"

\* C7 amended: when the remote call succeeded and close reports an error,
\* teardown catches the error and returns false (never true): the same value it
\* returns when the remote call failed.
C7_CloseErrorReturnsFalse ==
    \A j \in DOMAIN log :
        (log[j].ev = "closeDone" /\ log[j].err)
        => /\ \E k \in OpEvents(OpCall(j)) :
                 k < j /\ log[k] = EvTapiDone("deleteWebhook", TRUE)
           /\ log[j + 1] = EvCaught("ServerCloseError")
           /\ log[j + 2] = EvReturn("deleteWebhook", "false")
           /\ \A k \in OpEvents(OpCall(j)) : log[k].ev # "throw"

C7_Witness ==
    /\ pc = "idle"
    /\ Len(log) > 2
    /\ log[Len(log) - 2].ev = "closeDone"
    /\ log[Len(log) - 2].err

---------------------------------------------------------------------------
(* C8, C9: the payload of setWebhook *)

\* the remote calls issued by direct setWebhook calls
SetWebhookTapis ==
    {j \in DOMAIN log : log[j].ev = "tapi" /\ log[OpCall(j)].op = "setWebhook"}

\* C8: for a valid https url U and options without a path entry, the remote
\* call carries url = U followed by the bot token.
C8_DefaultPathIsToken ==
    \A j \in SetWebhookTapis :
        LET c == log[OpCall(j)]
        IN  ~c.options.path.has
            => log[j].payload.url = Present(c.arg.s \o _BOT_TOKEN)

\* C9: for a valid https url U and options with path = x, the remote call
\* carries url = U followed by x, no path entry, and every other option as given.
C9_PathOverride ==
    \A j \in SetWebhookTapis :
        LET c == log[OpCall(j)]
        IN  c.options.path.has
            => /\ log[j].payload.url = Present(c.arg.s \o c.options.path.v)
               /\ ~log[j].payload.path.has
               /\ \A k \in Keys \ {"path", "url"} : log[j].payload[k] = c.options[k]

---------------------------------------------------------------------------
(* C10 *)

\* the caller handed a valid https url: as the argument itself, or as the url
\* entry of the options object the method documents as its parameter
GivenValidHttpsUrl(arg) ==
    \/ arg.t = "string" /\ ValidWebhookUrl(arg)
    \/ arg.t = "object" /\ arg.o.url.has /\ ValidWebhookUrl(Str(arg.o.url.v))

ComposedStarts ==
    {i \in CallIndexes(log) : log[i].op = "setWebhookAndStartServer" /\ OpFinished(i)}

\* the composed start returned exactly when the listener was created and the
\* remote setWebhook call succeeded
C10_SuccessIffBothSucceeded ==
    \A i \in ComposedStarts :
        OpReturned(i)
        <=> /\ \E j \in OpEvents(i) : log[j].ev = "listen"
            /\ \E j \in OpEvents(i) : log[j] = EvTapiDone("setWebhook", TRUE)

\* C10: the composed start completes successfully iff listener creation and
\* the remote setWebhook call both succeeded; in particular it does so whenever
\* it is given a valid https url and no collaborator fails.
C10_StartSucceeds ==
    /\ C10_SuccessIffBothSucceeded
    /\ \A i \in ComposedStarts :
          (GivenValidHttpsUrl(log[i].arg) /\ NoFailureIn(i)) => OpReturned(i)

---------------------------------------------------------------------------
(* C11 *)

\* the listen event of the operation called at i (0 if it created no listener)
ListenerOf(i) ==
    IF \E j \in OpEvents(i) : log[j].ev = "listen"
    THEN log[CHOOSE j \in OpEvents(i) : log[j].ev = "listen"].id
    ELSE 0

\* the composed start called last has failed on the remote setWebhook call
StartFailedOnRegistration ==
    /\ pc = "idle"
    /\ CurrentOp(log) = "setWebhookAndStartServer"
    /\ log[Len(log)] = EvThrow("setWebhookAndStartServer", "ApiError")

\* C11: when the remote setWebhook call fails after the composed start created
\* the listener, the failure reaches the caller and that listener is still open
\* and is the one this._webhookServer refers to.
C11_NoRollback ==
    \A i \in ComposedStarts :
        (\E j \in OpEvents(i) : log[j] = EvTapiDone("setWebhook", FALSE))
        => /\ \E j \in OpEvents(i) :
                 log[j] = EvThrow("setWebhookAndStartServer", "ApiError")
           /\ ~OpReturned(i)
           /\ ListenerOf(i) # 0
           /\ (i = LastCall(log)
               => /\ _webhookServer = ListenerOf(i)
                  /\ ListenerOpen(listeners, _webhookServer))

C11_Witness == StartFailedOnRegistration /\ ListenerOpen(listeners, _webhookServer)

---------------------------------------------------------------------------
(* C13 *)

\* C13: over any sequence of lifecycle calls, close is invoked at most once on
\* any one listener handle.
C13_CloseAtMostOnce ==
    \A id \in DOMAIN listeners : listeners[id].closeCalls <= 1

---------------------------------------------------------------------------
(* C14 *)

Teardowns == {i \in CallIndexes(log) : log[i].op = "deleteWebhook" /\ OpFinished(i)}

\* C14: deleteWebhook never throws; it returns a boolean, and returns true
\* exactly when the remote deleteWebhook call succeeded and close completed
\* without error.
C14_AlwaysResolvesBoolean ==
    \A i \in Teardowns :
        /\ \A j \in OpEvents(i) : log[j].ev # "throw"
        /\ \E j \in OpEvents(i) :
              /\ log[j].ev = "return"
              /\ log[j].value \in {"true", "false"}
              /\ log[j].value = "true"
                 <=> /\ \E k \in OpEvents(i) : log[k] = EvTapiDone("deleteWebhook", TRUE)
                     /\ \E k \in OpEvents(i) : log[k].ev = "closeDone" /\ ~log[k].err

\* teardown on a bot that never started a listener: the remote call succeeded,
\* undefined.close threw, and false was returned
C14_Witness ==
    /\ pc = "idle"
    /\ listeners = <<>>
    /\ Len(log) > 2
    /\ log[Len(log) - 1] = EvCaught("TypeError")
    /\ log[Len(log)] = EvReturn("deleteWebhook", "false")

---------------------------------------------------------------------------
(* C15 *)

SetWebhookCalls == {i \in CallIndexes(log) : log[i].op = "setWebhook"}

\* C15: each setWebhook invocation issues at most one remote call, and when that
\* call fails the failure is thrown to the caller: true is not returned and no
\* further remote call follows.
C15_FailureSurfacedNoRetry ==
    \A i \in SetWebhookCalls :
        /\ Cardinality({j \in OpEvents(i) : log[j].ev = "tapi"}) <= 1
        /\ \A j \in OpEvents(i) :
              log[j] = EvTapiDone("setWebhook", FALSE)
              => /\ \E k \in OpEvents(i) : log[k] = EvThrow("setWebhook", "ApiError")
                 /\ ~OpReturned(i)
                 /\ \A k \in OpEvents(i) : k > j => log[k].ev # "tapi"

C15_Witness ==
    /\ pc = "idle"
    /\ CurrentOp(log) = "setWebhook"
    /\ log[Len(log)] = EvThrow("setWebhook", "ApiError")

---------------------------------------------------------------------------
(* C17 *)

\* the payload of the remote call issued by the operation called at i
PayloadOf(i) == log[CHOOSE j \in OpEvents(i) : log[j].ev = "tapi"].payload

\* j is a setWebhook call handing in the object of the setWebhook call i right
\* before it, with the same url, and both reach the remote call
SameObjectAgain(i, j) ==
    /\ i \in SetWebhookCalls /\ j \in SetWebhookCalls
    /\ i < j
    /\ \A k \in CallIndexes(log) : ~(i < k /\ k < j)
    /\ log[j].reused
    /\ log[i].arg = log[j].arg
    /\ \E k \in OpEvents(i) : log[k].ev = "tapi"
    /\ \E k \in OpEvents(j) : log[k].ev = "tapi"

\* C17: two successive setWebhook calls with the same url and the same options
\* object (holding a path entry) send identical payloads.
C17_SamePayloadTwice ==
    \A i, j \in CallIndexes(log) :
        (SameObjectAgain(i, j) /\ log[i].options.path.has)
        => PayloadOf(j) = PayloadOf(i)

---------------------------------------------------------------------------
(* C18 *)

NoDirectSetWebhook == SetWebhookCalls = {}

\* C18: after any sequence of startServer, setWebhookAndStartServer and
\* deleteWebhook calls, every listener still open is the one
\* this._webhookServer refers to.
C18_NoOrphanListener ==
    NoDirectSetWebhook
    => \A id \in DOMAIN listeners : listeners[id].state = "open" => id = _webhookServer

---------------------------------------------------------------------------
(* Teardown while deliveries are in flight *)

NextRequests ==
    \/ \E listenOk \in BOOLEAN : OpsBelow(MaxOps) /\ startServer(AbsentNum, listenOk)
    \/ OpsBelow(MaxOps) /\ deleteWebhook
    \/ \E ok \in BOOLEAN : deleteWebhook_tapiSettles(ok)
    \/ \E err \in BOOLEAN : deleteWebhook_closeCallback(err)
    \/ \E id \in DOMAIN listeners :
          TotalAccepted(listeners) < MaxRequests /\ RequestAccepted(id)
    \/ \E id \in DOMAIN listeners : RequestFinished(id)

SpecRequests == Init /\ [][NextRequests]_vars

\* the API client answers, the close callback fires, and the handling of every
\* accepted delivery ends
SpecRequestsFair ==
    /\ SpecRequests
    /\ WF_vars(\E ok \in BOOLEAN : deleteWebhook_tapiSettles(ok))
    /\ WF_vars(\E err \in BOOLEAN : deleteWebhook_closeCallback(err))
    /\ WF_vars(\E id \in DOMAIN listeners : RequestFinished(id))

---------------------------------------------------------------------------
(* C12 *)

InTeardown == pc \in {"deleteWebhook_tapi", "deleteWebhook_close"}

\* teardown has returned: true with the listener closed, or false
TeardownReported ==
    /\ pc = "idle"
    /\ CurrentOp(log) = "deleteWebhook"
    /\ \/ log[Len(log)] = EvReturn("deleteWebhook", "false")
       \/ /\ log[Len(log)] = EvReturn("deleteWebhook", "true")
          /\ listeners[_webhookServer].state = "closed"

\* C12: once teardown has begun, and given that the API client answers and the
\* in-flight requests finish, teardown eventually returns, closed or failed.
C12_TeardownReturns == InTeardown ~> TeardownReported

\* teardown is waiting for the close callback while a delivery is in flight
C12_Witness ==
    /\ pc = "deleteWebhook_close"
    /\ ~Drained(listeners[_webhookServer])

---------------------------------------------------------------------------
(* C16 *)

\* C16: once close was invoked the listener accepts nothing more, and teardown
\* returns true only when every delivery the listener had accepted was processed.
C16_GracefulClose ==
    [][ /\ \A id \in DOMAIN listeners :
              listeners[id].state # "open"
              => listeners'[id].accepted = listeners[id].accepted
        /\ (  /\ pc # "idle" /\ pc' = "idle"
              /\ log'[Len(log')] = EvReturn("deleteWebhook", "true")
            => /\ Drained(listeners'[_webhookServer])
               /\ listeners'[_webhookServer].state = "closed") ]_vars

\* teardown returned true for a listener that had accepted deliveries
C16_Witness ==
    /\ pc = "idle"
    /\ Len(log) > 0
    /\ log[Len(log)] = EvReturn("deleteWebhook", "true")
    /\ listeners[_webhookServer].accepted > 0

====
